---- MODULE Spec2Model ----
(***************************************************************************)
(* A model of the HTTP server of src/http/httpd.hh: the server instance    *)
(* (listen, do_accepts, stop, maybe_idle) and the per-connection duplex    *)
(* state machine (read / read_one / generate_reply / upgrade_websocket on  *)
(* the reader side, respond / do_response_loop / start_response on the     *)
(* responder side, process joining the two).                               *)
(*                                                                         *)
(* One action is one continuation of the source: the code that runs        *)
(* between two suspension points of the cooperative scheduler.             *)
(***************************************************************************)
EXTENDS Integers, Sequences, FiniteSets

(***************************************************************************)
(* Program constants.                                                      *)
(***************************************************************************)
\* queue<std::unique_ptr<reply>> _replies { 10 };
QueueCap == 10

(***************************************************************************)
(* Bounds of the model: the environment (the peers) the server is run      *)
(* against.  Two environments are explored: one client that pipelines      *)
(* more requests than the reply queue holds, and several listeners and     *)
(* clients that each send few requests.                                    *)
(***************************************************************************)
\* requests pipelined by the single client of the pipelining environment
MaxPipelined == 12
\* listeners, clients and requests (of all clients) of the many-clients environment
MaxListeners == 2
MaxClients == 2
MaxRequests == 1
\* messages a WebSocket handler writes before it returns
MaxWsWrites == 1
\* calls of stop()
MaxStops == 2
\* characters of a query parameter given to add_param
MaxParamLen == 5

VARIABLES
    workload,                       \* the environment: what the peers will do
    _listeners,                     \* std::vector<server_socket>, with each accept loop
    _total_connections,
    _current_connections,
    _requests_served,
    _connections_being_accepted,
    _read_errors,
    _respond_errors,
    _stopping,
    _all_connections_stopped,       \* promise<>: number of set_value() calls
    _stopped,                       \* future<>: "valid" or "moved" (moved-from)
    stop_futures,                   \* the futures stop() has returned, in call order
    _connections,                   \* boost::intrusive::list<connection>
    conn,                           \* every connection object constructed so far
    halted,                         \* the process died (null dereference)
    param,                          \* the query parameter add_param is given
    query_parameters,               \* request::query_parameters: (key, value) entries
    added                           \* add_param has returned

server_vars ==
    <<_listeners, _total_connections, _current_connections, _requests_served,
      _connections_being_accepted, _read_errors, _respond_errors, _stopping,
      _all_connections_stopped, _stopped, stop_futures, _connections>>

\* the state of the URL decoding of one request
url_vars == <<param, query_parameters, added>>

vars == <<workload, server_vars, conn, halted, url_vars>>

\* a null unique_ptr (no request, no reply: the queue's eof mark)
Null == [null |-> TRUE]

(***************************************************************************)
(* Requests, as the parser hands them to generate_reply: the version, the  *)
(* Connection and Upgrade headers ("none" when absent), whether a          *)
(* Sec-WebSocket-Key header is present and whether the route table has a   *)
(* WebSocket handler for the path.                                         *)
(***************************************************************************)
Request(v, c, u, k, w) ==
    [version |-> v, connection |-> c, upgrade |-> u, key |-> k, ws_route |-> w]

PlainRequest == Request("1.1", "none", "none", FALSE, FALSE)
CloseRequest == Request("1.1", "Close", "none", FALSE, FALSE)
UpgradeRequest == Request("1.1", "Upgrade", "websocket", TRUE, TRUE)
NoKeyUpgradeRequest == Request("1.1", "Upgrade", "websocket", FALSE, TRUE)

Requests ==
    { PlainRequest, CloseRequest, UpgradeRequest, NoKeyUpgradeRequest,
      Request("1.0", "none", "none", FALSE, FALSE),
      Request("1.0", "Keep-Alive", "none", FALSE, FALSE),
      Request("1.0", "keep-alive", "none", FALSE, FALSE),
      Request("0.9", "Keep-Alive", "none", FALSE, FALSE),
      Request("1.1", "keep-alive, Upgrade", "WebSocket", TRUE, TRUE),
      Request("1.1", "Upgrade", "websocket", TRUE, FALSE),
      Request("1.1", "Upgrade", "h2c", TRUE, TRUE) }

PipelinedRequests ==
    { PlainRequest, CloseRequest, UpgradeRequest, NoKeyUpgradeRequest }

Pipelining ==
    [listeners |-> 1, clients |-> 1, requests |-> MaxPipelined,
     kinds |-> PipelinedRequests]

ManyClients ==
    [listeners |-> MaxListeners, clients |-> MaxClients, requests |-> MaxRequests,
     kinds |-> Requests]


(***************************************************************************)
(* The reply queue (core/queue.hh): a bounded FIFO.  push() on a full      *)
(* queue drops the element; the *_eventually and not_full() forms wait.    *)
(* The null element (Null) marks eof.                                      *)
(***************************************************************************)
full(q) == Len(q) >= QueueCap

push(q, x) == IF Len(q) < QueueCap THEN Append(q, x) ELSE q

(***************************************************************************)
(* generate_reply: the Connection header, the upgrade test and the         *)
(* closure rule.                                                           *)
(***************************************************************************)
\* it->second.find("Upgrade") != std::string::npos, over the values of Requests
ContainsUpgrade(value) == value \in {"Upgrade", "keep-alive, Upgrade"}

\* boost::iequals(upgrade->second.begin(), "websocket"), over the values of Requests
iequals_websocket(value) == value \in {"websocket", "WebSocket"}

conn_keep_alive(req) == req.connection = "Keep-Alive"

conn_close(req) == req.connection # "Keep-Alive" /\ req.connection = "Close"

TakesUpgradePath(req) ==
    /\ req.connection # "none"
    /\ req.connection # "Keep-Alive"
    /\ req.connection # "Close"
    /\ ContainsUpgrade(req.connection)
    /\ req.upgrade # "none"
    /\ iequals_websocket(req.upgrade)

\* a closure rule that treats every version but 1.0 as 1.1
should_close_as_1_1(req) ==
    IF req.version = "1.0" THEN ~conn_keep_alive(req) ELSE conn_close(req)

should_close(req) ==
    IF req.version = "1.0" THEN ~conn_keep_alive(req)
    ELSE IF req.version = "1.1" THEN conn_close(req)
    ELSE TRUE

\* a reply that never carries the Connection header
NormalReply_no_header(id, req) == [id |-> id, status |-> 200, connection |-> "none"]

\* the reply generate_reply hands to routes.handle and then pushes
NormalReply(id, req) ==
    [id |-> id, status |-> 200,
     connection |-> IF req.version = "1.0" /\ conn_keep_alive(req)
                    THEN "Keep-Alive" ELSE "none"]

\* upgrade_websocket: Success when the key is present and a WS route matches
UpgradeAccepted(req) == req.key /\ req.ws_route

UpgradeReply(id, req) ==
    IF UpgradeAccepted(req)
    THEN [id |-> id, status |-> 101, connection |-> "Upgrade"]
    ELSE [id |-> id, status |-> 400, connection |-> "none"]

\* the assignments upgrade_websocket makes to _done, in order
UpgradeAssignments(req) ==
    IF UpgradeAccepted(req) THEN <<"detach">> ELSE <<"close", "detach">>

(***************************************************************************)
(* start_response: the writes of one reply, in order, ended by a flush.    *)
(***************************************************************************)
Parts == <<"response_line", "headers", "crlf", "body", "flush">>

Chunk(resp, part) == <<resp.id, Parts[part]>>

\* maybe_idle without the test of _current_connections
maybe_idle_no_connections(stopping, being_accepted, current, promise) ==
    IF stopping /\ being_accepted = 0 THEN promise + 1 ELSE promise

\* maybe_idle without the test of _connections_being_accepted
maybe_idle_no_accepts(stopping, being_accepted, current, promise) ==
    IF stopping /\ current = 0 THEN promise + 1 ELSE promise

(***************************************************************************)
(* maybe_idle: fulfils the quiescence promise; returns the number of       *)
(* set_value() calls made so far.                                          *)
(***************************************************************************)
maybe_idle(stopping, being_accepted, current, promise) ==
    IF stopping /\ being_accepted = 0 /\ current = 0
    THEN promise + 1
    ELSE promise

(***************************************************************************)
(* A connection object right after its constructor and the start of        *)
(* process(): read() is suspended in consume(), respond() in               *)
(* pop_eventually(), process() in when_all().                              *)
(***************************************************************************)
NewConnection ==
    [alive |-> TRUE,
     _done |-> "keep_open",
     _replies |-> <<>>,
     _req |-> Null,
     _resp |-> Null,
     _fd |-> "connected_socket",
     shut |-> FALSE,                \* shutdown_input() and shutdown_output() called
     read_closed |-> FALSE,         \* _read_buf.close() called
     write_closed |-> FALSE,        \* _write_buf.close() called
     reader |-> "consume",          \* where read() is suspended
     req |-> Null,                  \* the parsed request read_one holds
     resp |-> Null,                 \* the reply the handler is filling in
     ret |-> "none",                \* the status generate_reply resolves with
     handled |-> Null,              \* history: the request generate_reply was given
     read_failed |-> FALSE,
     responder |-> "pop_eventually", \* where respond() is suspended
     part |-> 0,
     respond_failed |-> FALSE,
     process |-> "when_all",        \* where process() is suspended
     parsed |-> 0,                  \* requests parsed on this connection
     produced |-> <<>>,             \* history: the replies the reader pushed
     wire |-> <<>>,                 \* history: the writes to the transport
     assigned |-> <<>>,             \* history: the values assigned to _done
     sentinels |-> 0,               \* history: the sentinels the reader pushed
     ws_writes |-> 0]

Init ==
    /\ workload \in {Pipelining, ManyClients}
    /\ _listeners = <<>>
    /\ _total_connections = 0
    /\ _current_connections = 0
    /\ _requests_served = 0
    /\ _connections_being_accepted = 0
    /\ _read_errors = 0
    /\ _respond_errors = 0
    /\ _stopping = FALSE
    /\ _all_connections_stopped = 0
    /\ _stopped = "valid"
    /\ stop_futures = <<>>
    /\ _connections = <<>>
    /\ conn = <<>>
    /\ halted = FALSE
    /\ param = <<>>
    /\ query_parameters = {}
    /\ added = FALSE

ConnIds == DOMAIN conn

Live == {c \in ConnIds : conn[c].alive}

(***************************************************************************)
(* http_server::listen: the listener is added, its accept loop started     *)
(* (do_accepts: ++_connections_being_accepted, accept() in flight) and     *)
(* the loop's future joined into _stopped.  The program listens before it  *)
(* stops (apps/httpd/main.cc).                                             *)
(***************************************************************************)
listen ==
    /\ ~halted
    /\ ~_stopping
    /\ _stopped = "valid"
    /\ Len(_listeners) < workload.listeners
    /\ _listeners' = Append(_listeners,
                            [accept |-> "in_flight", aborted |-> FALSE, settled |-> FALSE])
    /\ _connections_being_accepted' = _connections_being_accepted + 1
    /\ UNCHANGED <<url_vars, workload, _total_connections, _current_connections, _requests_served,
                   _read_errors, _respond_errors, _stopping, _all_connections_stopped,
                   _stopped, stop_futures, _connections, conn, halted>>

(***************************************************************************)
(* http_server::stop.  connection::shutdown shuts both directions of the   *)
(* transport whichever alternative _fd holds.  The returned future is      *)
(* std::move(_stopped): a second call moves from a moved-from future.      *)
(***************************************************************************)
stop ==
    /\ ~halted
    /\ Len(stop_futures) < MaxStops
    /\ _stopping' = TRUE
    /\ _listeners' = [l \in DOMAIN _listeners |-> [_listeners[l] EXCEPT !.aborted = TRUE]]
    /\ conn' = [c \in ConnIds |->
                   IF \E i \in DOMAIN _connections : _connections[i] = c
                   THEN [conn[c] EXCEPT !.shut = TRUE]
                   ELSE conn[c]]
    /\ stop_futures' = Append(stop_futures,
                              IF _stopped = "valid" THEN "chained" ELSE "moved")
    /\ _stopped' = "moved"
    /\ UNCHANGED <<url_vars, workload, _total_connections, _current_connections, _requests_served,
                   _connections_being_accepted, _read_errors, _respond_errors,
                   _all_connections_stopped, _connections, halted>>

(***************************************************************************)
(* do_accepts, the continuation of accept().                               *)
(***************************************************************************)
\* a completion that never looks at _stopping
accept_discarded_never(stopping) == FALSE

\* do_accepts: if (_stopping) the accepted socket is dropped and the loop ends
accept_discarded(stopping) == stopping

\* accept() completed with a socket
accept_ok(which) ==
    /\ ~halted
    /\ which \in DOMAIN _listeners
    /\ _listeners[which].accept = "in_flight"
    /\ IF accept_discarded(_stopping)
       THEN /\ _connections_being_accepted' = _connections_being_accepted - 1
            /\ _all_connections_stopped' =
                   maybe_idle(_stopping, _connections_being_accepted - 1,
                              _current_connections, _all_connections_stopped)
            /\ _listeners' = [_listeners EXCEPT ![which].accept = "none",
                                                ![which].settled = TRUE]
            /\ UNCHANGED <<_total_connections, _current_connections, _connections, conn>>
       ELSE /\ _total_connections < workload.clients
            \* new connection(...): the constructor, then process()
            /\ _total_connections' = _total_connections + 1
            /\ _current_connections' = _current_connections + 1
            /\ _connections' = Append(_connections, _total_connections + 1)
            /\ conn' = Append(conn, NewConnection)
            \* do_accepts(which): the next accept is in flight
            /\ _connections_being_accepted' = (_connections_being_accepted - 1) + 1
            /\ _listeners' = [_listeners EXCEPT ![which].settled = TRUE]
            /\ UNCHANGED _all_connections_stopped
    /\ UNCHANGED <<url_vars, workload, _requests_served, _read_errors, _respond_errors, _stopping,
                   _stopped, stop_futures, halted>>

\* accept() completed with an exception (abort_accept, or an accept error)
accept_failed(which) ==
    /\ ~halted
    /\ which \in DOMAIN _listeners
    /\ _listeners[which].accept = "in_flight"
    /\ _connections_being_accepted' = _connections_being_accepted - 1
    /\ _all_connections_stopped' =
           IF _stopping
           THEN maybe_idle(_stopping, _connections_being_accepted - 1,
                           _current_connections, _all_connections_stopped)
           ELSE _all_connections_stopped
    /\ _listeners' = [_listeners EXCEPT ![which].accept = "none", ![which].settled = TRUE]
    /\ UNCHANGED <<url_vars, workload, _total_connections, _current_connections, _requests_served,
                   _read_errors, _respond_errors, _stopping, _stopped, stop_futures,
                   _connections, conn, halted>>


(***************************************************************************)
(* The reader: connection::read, read_one, generate_reply and              *)
(* upgrade_websocket.                                                      *)
(***************************************************************************)
ConnUnchanged ==
    UNCHANGED <<url_vars, workload, _listeners, _total_connections, _current_connections,
                _connections_being_accepted, _stopping, _all_connections_stopped,
                _stopped, stop_futures, _connections, halted>>

\* upgrade_websocket runs to its end without suspending: it assigns _done,
\* retains the request on success, pushes the reply and returns the status
upgrade_websocket(k, req) ==
    [k EXCEPT !._req = IF UpgradeAccepted(req) THEN req ELSE @,
              !._done = "detach",
              !.assigned = @ \o UpgradeAssignments(req),
              !._replies = push(@, UpgradeReply(k.parsed, req)),
              !.produced = Append(@, UpgradeReply(k.parsed, req)),
              !.req = Null,
              !.handled = req,
              !.ret = "detach",
              !.reader = "store"]

\* generate_reply up to its first suspension: the upgrade path, or the call
\* of routes.handle with the reply to fill in
generate_reply(k, req) ==
    IF TakesUpgradePath(req)
    THEN upgrade_websocket(k, req)
    ELSE [k EXCEPT !.req = Null,
                   !.handled = req,
                   !.resp = NormalReply(k.parsed, req),
                   !.ret = IF should_close(req) THEN "close" ELSE "keep_open",
                   !.reader = "handle"]

\* do_until's stop condition in read()
reader_stops(done) == done # "keep_open"

\* a reader that never waits for room in the queue
awaits_capacity_never(q) == FALSE

\* read_one: _replies.not_full() is not ready when the queue is full
awaits_capacity(q) == full(q)

\* read_one: consume() delivered a request; not_full() is ready when the
\* queue is not full and generate_reply starts at once
read_one_request(c, req) ==
    /\ ~halted
    /\ c \in Live
    /\ conn[c].reader = "consume"
    /\ _requests_served < workload.requests
    /\ req \in workload.kinds
    /\ _requests_served' = _requests_served + 1
    /\ LET k == [conn[c] EXCEPT !.parsed = @ + 1]
       IN conn' = [conn EXCEPT ![c] =
                      IF awaits_capacity(k._replies)
                      THEN [k EXCEPT !.req = req, !.reader = "not_full"]
                      ELSE generate_reply(k, req)]
    /\ UNCHANGED <<_read_errors, _respond_errors>>
    /\ ConnUnchanged

\* read_one: _parser.eof()
read_one_eof(c) ==
    /\ ~halted
    /\ c \in Live
    /\ conn[c].reader = "consume"
    /\ conn' = [conn EXCEPT ![c]._done = "close",
                            ![c].assigned = Append(@, "close"),
                            ![c].reader = "then_wrapped"]
    /\ UNCHANGED <<_requests_served, _read_errors, _respond_errors>>
    /\ ConnUnchanged

\* read_one: consume() failed (a transport or a parse error)
read_one_failed(c) ==
    /\ ~halted
    /\ c \in Live
    /\ conn[c].reader = "consume"
    /\ conn' = [conn EXCEPT ![c].read_failed = TRUE,
                            ![c].reader = "then_wrapped"]
    /\ UNCHANGED <<_requests_served, _read_errors, _respond_errors>>
    /\ ConnUnchanged

\* read_one: the not_full() future resolves
read_one_not_full(c) ==
    /\ ~halted
    /\ c \in Live
    /\ conn[c].reader = "not_full"
    /\ ~full(conn[c]._replies)
    /\ conn' = [conn EXCEPT ![c] = generate_reply(conn[c], conn[c].req)]
    /\ UNCHANGED <<_requests_served, _read_errors, _respond_errors>>
    /\ ConnUnchanged

\* generate_reply: routes.handle resolved; the reply is pushed
generate_reply_handled(c) ==
    /\ ~halted
    /\ c \in Live
    /\ conn[c].reader = "handle"
    /\ conn' = [conn EXCEPT ![c]._replies = push(@, conn[c].resp),
                            ![c].produced = Append(@, conn[c].resp),
                            ![c].resp = Null,
                            ![c].reader = "store"]
    /\ UNCHANGED <<_requests_served, _read_errors, _respond_errors>>
    /\ ConnUnchanged

\* read_one: _done = done, then do_until tests its stop condition
read_one_store(c) ==
    /\ ~halted
    /\ c \in Live
    /\ conn[c].reader = "store"
    /\ conn' = [conn EXCEPT ![c]._done = conn[c].ret,
                            ![c].assigned = Append(@, conn[c].ret),
                            ![c].ret = "none",
                            ![c].handled = Null,
                            ![c].reader = IF reader_stops(conn[c].ret)
                                          THEN "then_wrapped" ELSE "consume"]
    /\ UNCHANGED <<_requests_served, _read_errors, _respond_errors>>
    /\ ConnUnchanged

\* read(): the sentinel is pushed unless the status is detach
pushes_sentinel(done) == done # "detach"

\* read(): the then_wrapped continuation; push_eventually, then the finally
\* block that closes the read buffer
read_then_wrapped(c) ==
    /\ ~halted
    /\ c \in Live
    /\ conn[c].reader = "then_wrapped"
    /\ _read_errors' = IF conn[c].read_failed THEN _read_errors + 1 ELSE _read_errors
    /\ conn' = [conn EXCEPT ![c] =
                   IF ~pushes_sentinel(conn[c]._done)
                   THEN [@ EXCEPT !.reader = "done"]
                   ELSE IF full(conn[c]._replies)
                   THEN [@ EXCEPT !.reader = "push_eventually"]
                   ELSE [@ EXCEPT !._replies = Append(@, Null),
                                  !.sentinels = @ + 1,
                                  !.read_closed = TRUE,
                                  !.reader = "done"]]
    /\ UNCHANGED <<_requests_served, _respond_errors>>
    /\ ConnUnchanged

\* read(): push_eventually got room for the sentinel
read_push_eventually(c) ==
    /\ ~halted
    /\ c \in Live
    /\ conn[c].reader = "push_eventually"
    /\ ~full(conn[c]._replies)
    /\ conn' = [conn EXCEPT ![c]._replies = Append(@, Null),
                            ![c].sentinels = @ + 1,
                            ![c].read_closed = TRUE,
                            ![c].reader = "done"]
    /\ UNCHANGED <<_requests_served, _read_errors, _respond_errors>>
    /\ ConnUnchanged

(***************************************************************************)
(* The responder: connection::respond, do_response_loop, start_response.   *)
(***************************************************************************)
\* a responder that pops the next reply while start_response is still writing
responder_pops_early(k) == k.responder \in {"pop_eventually", "start_response"}

\* do_response_loop pops the next reply only once start_response resolved
responder_pops(k) == k.responder = "pop_eventually"

\* do_response_loop: after a reply is written the loop goes on
loop_continues(done) == done = "keep_open"

\* do_response_loop: pop_eventually delivered an element
do_response_loop(c) ==
    /\ ~halted
    /\ c \in Live
    /\ responder_pops(conn[c])
    /\ conn[c]._replies # <<>>
    /\ conn' = [conn EXCEPT ![c] =
                   IF Head(conn[c]._replies) = Null
                   THEN [@ EXCEPT !._replies = Tail(@), !.responder = "then_wrapped"]
                   ELSE [@ EXCEPT !._replies = Tail(@),
                                  !._resp = Head(conn[c]._replies),
                                  !.part = 1,
                                  !.responder = "start_response"]]
    /\ UNCHANGED <<_requests_served, _read_errors, _respond_errors>>
    /\ ConnUnchanged

\* start_response: one write (or the final flush) completed
start_response(c) ==
    /\ ~halted
    /\ c \in Live
    /\ conn[c].responder = "start_response"
    /\ conn' = [conn EXCEPT ![c] =
                   IF conn[c].part < Len(Parts)
                   THEN [@ EXCEPT !.wire = Append(@, Chunk(conn[c]._resp, conn[c].part)),
                                  !.part = @ + 1]
                   ELSE [@ EXCEPT !._resp = Null,
                                  !.part = 0,
                                  !.responder = IF loop_continues(conn[c]._done)
                                                THEN "pop_eventually"
                                                ELSE "then_wrapped"]]
    /\ conn[c].part = Len(Parts) => ~conn[c].shut
    /\ UNCHANGED <<_requests_served, _read_errors, _respond_errors>>
    /\ ConnUnchanged

\* start_response: a write or the flush failed
start_response_failed(c) ==
    /\ ~halted
    /\ c \in Live
    /\ conn[c].responder = "start_response"
    /\ conn' = [conn EXCEPT ![c].respond_failed = TRUE,
                            ![c].responder = "then_wrapped"]
    /\ UNCHANGED <<_requests_served, _read_errors, _respond_errors>>
    /\ ConnUnchanged

\* respond(): the write buffer is closed unless the status is detach
closes_write_buf(done) == done # "detach"

\* respond(): the then_wrapped continuation
respond_then_wrapped(c) ==
    /\ ~halted
    /\ c \in Live
    /\ conn[c].responder = "then_wrapped"
    /\ _respond_errors' = IF conn[c].respond_failed
                          THEN _respond_errors + 1 ELSE _respond_errors
    /\ conn' = [conn EXCEPT ![c].write_closed = @ \/ closes_write_buf(conn[c]._done),
                            ![c].responder = "done"]
    /\ UNCHANGED <<_requests_served, _read_errors>>
    /\ ConnUnchanged


(***************************************************************************)
(* connection::process: the join of read() and respond(), the detach       *)
(* branch, and the finalizer of do_accepts that deletes the connection.    *)
(***************************************************************************)
\* a join that waits for read() only
joined_reader_only(k) == k.reader = "done"

\* when_all(read(), respond()) resolved
joined(k) == k.reader = "done" /\ k.responder = "done"

\* process(): the continuation of when_all.  On the detach branch the
\* request is dereferenced (set_query_param(*_req.get())): with no retained
\* request that is a null dereference, and the process dies or runs on.
process(c) ==
    /\ ~halted
    /\ c \in Live
    /\ conn[c].process = "when_all"
    /\ joined(conn[c])
    /\ \/ /\ conn[c]._done = "detach"
          /\ conn[c]._req # Null
          /\ conn' = [conn EXCEPT ![c].process = "flush"]
          /\ UNCHANGED halted
       \/ /\ conn[c]._done = "detach"
          /\ conn[c]._req = Null
          /\ \/ halted' = TRUE /\ UNCHANGED conn
             \/ conn' = [conn EXCEPT ![c].process = "flush"] /\ UNCHANGED halted
       \/ /\ conn[c]._done # "detach"
          /\ conn' = [conn EXCEPT ![c].process = "resolved"]
          /\ UNCHANGED halted
    /\ UNCHANGED <<url_vars, workload, server_vars>>

\* process(): _write_buf.flush() resolved; the transport becomes a
\* connected_websocket and handle_ws is called with the retained request
process_flushed(c) ==
    /\ ~halted
    /\ c \in Live
    /\ conn[c].process = "flush"
    /\ ~conn[c].shut
    /\ conn' = [conn EXCEPT ![c]._fd = "connected_websocket",
                            ![c]._req = Null,
                            ![c].process = "handle_ws"]
    /\ UNCHANGED <<url_vars, workload, server_vars, halted>>

\* process(): the flush failed; then_wrapped discards the exception
process_flush_failed(c) ==
    /\ ~halted
    /\ c \in Live
    /\ conn[c].process = "flush"
    /\ conn' = [conn EXCEPT ![c].process = "resolved"]
    /\ UNCHANGED <<url_vars, workload, server_vars, halted>>

\* the WebSocket handler writes a message to the transport
handle_ws_write(c) ==
    /\ ~halted
    /\ c \in Live
    /\ conn[c].process = "handle_ws"
    /\ conn[c].ws_writes < MaxWsWrites
    /\ conn' = [conn EXCEPT ![c].ws_writes = @ + 1,
                            ![c].wire = Append(@, <<0, "ws_message">>)]
    /\ UNCHANGED <<url_vars, workload, server_vars, halted>>

\* handle_ws resolved (or failed: then_wrapped discards the exception)
handle_ws_resolved(c) ==
    /\ ~halted
    /\ c \in Live
    /\ conn[c].process = "handle_ws"
    /\ conn' = [conn EXCEPT ![c].process = "resolved"]
    /\ UNCHANGED <<url_vars, workload, server_vars, halted>>

\* an erase that unlinks the front of the list instead of the connection
erase_front(list, c) == Tail(list)

\* _server._connections.erase(_server._connections.iterator_to(*this))
erase(list, c) == SelectSeq(list, LAMBDA x : x # c)

\* the memory of a deleted connection: nothing of the object is left
Deleted ==
    [NewConnection EXCEPT !.alive = FALSE, !.reader = "done", !.responder = "done",
                          !.process = "deleted"]

\* do_accepts: delete conn, that is ~connection()
delete_conn(c) ==
    /\ ~halted
    /\ c \in Live
    /\ conn[c].process = "resolved"
    /\ conn' = [conn EXCEPT ![c] = Deleted]
    /\ _current_connections' = _current_connections - 1
    /\ _connections' = erase(_connections, c)
    /\ _all_connections_stopped' =
           maybe_idle(_stopping, _connections_being_accepted,
                      _current_connections - 1, _all_connections_stopped)
    /\ UNCHANGED <<url_vars, workload, _listeners, _total_connections, _requests_served,
                   _connections_being_accepted, _read_errors, _respond_errors,
                   _stopping, _stopped, stop_futures, halted>>

(***************************************************************************)
(* The specification.                                                      *)
(***************************************************************************)
\* the steps the two loops and process() of connection c can take
ConnNext(c) ==
    \/ \E req \in Requests : read_one_request(c, req)
    \/ read_one_eof(c)
    \/ read_one_failed(c)
    \/ read_one_not_full(c)
    \/ generate_reply_handled(c)
    \/ read_one_store(c)
    \/ read_then_wrapped(c)
    \/ read_push_eventually(c)
    \/ do_response_loop(c)
    \/ start_response(c)
    \/ start_response_failed(c)
    \/ respond_then_wrapped(c)
    \/ process(c)
    \/ process_flushed(c)
    \/ process_flush_failed(c)
    \/ handle_ws_write(c)
    \/ handle_ws_resolved(c)
    \/ delete_conn(c)

ServerNext ==
    \/ listen
    \/ stop
    \/ \E which \in 1..MaxListeners : accept_ok(which)
    \/ \E which \in 1..MaxListeners : accept_failed(which)

Next ==
    \/ ServerNext
    \/ \E c \in 1..MaxClients : ConnNext(c)

Spec == Init /\ [][Next]_vars


(***************************************************************************)
(* URL decoding: hex_to_byte, hexstr_to_char, url_decode and add_param.     *)
(* A string is a sequence of characters, a decoded sstring a sequence of   *)
(* bytes (0..255).  Positions are size_t values counted from 0, npos is    *)
(* size_t(-1), the largest of them.                                        *)
(***************************************************************************)
\* the characters the parameters are made of
Chars == {"%", "+", "=", "4", "a", "F", "g"}

\* the value of a char
Ord(c) ==
    CASE c = "%" -> 37 [] c = "+" -> 43 [] c = "=" -> 61 [] c = "4" -> 52
      [] c = "F" -> 70 [] c = "a" -> 97 [] c = "g" -> 103

npos == -1

\* a >= b on size_t
size_ge(a, b) == a = npos \/ (b # npos /\ a >= b)

\* string_view::find(ch)
find(s, ch) ==
    IF \E i \in DOMAIN s : s[i] = ch
    THEN (CHOOSE i \in DOMAIN s : s[i] = ch /\ \A j \in 1..(i - 1) : s[j] # ch) - 1
    ELSE npos

\* string_view::substr(pos, n), for pos <= size()
substr(s, pos, n) ==
    SubSeq(s, pos + 1, IF n = npos \/ pos + n > Len(s) THEN Len(s) ELSE pos + n)

hex_to_byte(c) ==
    IF Ord(c) >= 97 /\ Ord(c) <= 122 THEN Ord(c) - 97 + 10
    ELSE IF Ord(c) >= 65 /\ Ord(c) <= 90 THEN Ord(c) - 65 + 10
    ELSE Ord(c) - 48

\* static_cast<char>(...): the byte of the sum
hexstr_to_char(in, from) ==
    (hex_to_byte(in[from + 1]) * 16 + hex_to_byte(in[from + 2])) % 256

\* url_decode's loop from position i with the bytes decoded so far; the
\* result is whether it returned true, and out
RECURSIVE url_decode_from(_, _, _)
url_decode_from(in, i, buff) ==
    IF i >= Len(in) THEN [ok |-> TRUE, out |-> buff]
    ELSE IF in[i + 1] = "%"
    THEN (IF i + 3 <= Len(in)
          THEN url_decode_from(in, i + 3, Append(buff, hexstr_to_char(in, i + 1)))
          ELSE [ok |-> FALSE, out |-> <<>>])
    ELSE IF in[i + 1] = "+"
    THEN url_decode_from(in, i + 1, Append(buff, 32))
    ELSE url_decode_from(in, i + 1, Append(buff, Ord(in[i + 1])))

url_decode(in) == url_decode_from(in, 0, <<>>)

\* req.query_parameters[key] = value
assign(parameters, key, value) ==
    {e \in parameters : e.key # key} \cup {[key |-> key, value |-> value]}

\* add_param: the query parameters of the request after the call
add_param(parameters, p) ==
    LET split == find(p, "=")
        key == url_decode(substr(p, 0, split))
    IN IF size_ge(split, Len(p) - 1)
       THEN (IF key.ok THEN assign(parameters, key.out, <<>>) ELSE parameters)
       ELSE LET value == url_decode(substr(p, split + 1, npos))
            IN IF key.ok /\ value.ok
               THEN assign(parameters, key.out, value.out)
               ELSE parameters

\* the parameters add_param is tried on
Params == UNION {[1..n -> Chars] : n \in 0..MaxParamLen}

\* set_query_param on a URL with one parameter after the question mark
set_query_param ==
    /\ ~added
    /\ query_parameters' = add_param(query_parameters, param)
    /\ added' = TRUE
    /\ UNCHANGED <<param, workload, server_vars, conn, halted>>

\* the decoding of each parameter, on a request of a server at rest
DecodeInit ==
    /\ workload = Pipelining
    /\ _listeners = <<>>
    /\ _total_connections = 0
    /\ _current_connections = 0
    /\ _requests_served = 0
    /\ _connections_being_accepted = 0
    /\ _read_errors = 0
    /\ _respond_errors = 0
    /\ _stopping = FALSE
    /\ _all_connections_stopped = 0
    /\ _stopped = "valid"
    /\ stop_futures = <<>>
    /\ _connections = <<>>
    /\ conn = <<>>
    /\ halted = FALSE
    /\ param \in Params
    /\ query_parameters = {}
    /\ added = FALSE

DecodeNext == set_query_param

DecodeSpec == DecodeInit /\ [][DecodeNext]_vars

(***************************************************************************)
(* The future stop() returns.  _stopped is the quiescence promise's future *)
(* joined (when_all) with the future of each listener's first do_accepts.  *)
(* A future moved from a moved-from _stopped has no promise behind it: it  *)
(* never becomes available (and attaching a continuation to it is          *)
(* undefined); in none of these outcomes does it resolve.                  *)
(***************************************************************************)
StopFutureResolved(i) ==
    /\ i \in DOMAIN stop_futures
    /\ stop_futures[i] = "chained"
    /\ _all_connections_stopped >= 1
    /\ \A l \in DOMAIN _listeners : _listeners[l].settled

(***************************************************************************)
(* Properties.                                                             *)
(***************************************************************************)
IsPrefix(s, t) == Len(s) <= Len(t) /\ \A i \in 1..Len(s) : s[i] = t[i]

\* the writes of replies among the writes to the transport
ReplyChunks(wire) == SelectSeq(wire, LAMBDA ch : ch[1] # 0)

\* the wire image of a sequence of replies: each reply's writes, whole and in order
RECURSIVE WireOf(_)
WireOf(replies) ==
    IF replies = <<>> THEN <<>>
    ELSE << <<Head(replies).id, "response_line">>, <<Head(replies).id, "headers">>,
            <<Head(replies).id, "crlf">>, <<Head(replies).id, "body">> >>
         \o WireOf(Tail(replies))

\* no transport error on connection c: no failed read or write, no shutdown
NoTransportError(c) ==
    ~conn[c].read_failed /\ ~conn[c].respond_failed /\ ~conn[c].shut

\* C1: on every connection the writes of replies are a prefix of the wire image
\* of the replies the reader produced, which are in the order their requests
\* were parsed; so replies go out in order and their bytes never interleave.
C1_RepliesInOrder ==
    \A c \in Live :
        /\ IsPrefix(ReplyChunks(conn[c].wire), WireOf(conn[c].produced))
        /\ \A i, j \in DOMAIN conn[c].produced :
               i < j => conn[c].produced[i].id < conn[c].produced[j].id

\* C1 witness: the second reply is being written while the reader is ahead
C1_Witness ==
    \E c \in Live :
        /\ Len(ReplyChunks(conn[c].wire)) = 6
        /\ Len(conn[c].produced) >= 4
        /\ conn[c].reader = "handle"

\* C2: on a connection with no transport error, when the responder loop has
\* exited every reply the reader produced has been written.
C2_AllRepliesWritten ==
    \A c \in Live :
        (conn[c].responder = "done" /\ NoTransportError(c))
            => ReplyChunks(conn[c].wire) = WireOf(conn[c].produced)

\* C3: both loops terminate and process() resolves: as long as the connection
\* exists and the process runs, the connection has a step to take.
C3_ProcessResolves ==
    \A c \in Live : ~halted => ENABLED ConnNext(c)

\* C4: after stop(), once no accept is in flight and no connection can take a
\* step, every connection has been destroyed.
C4_StopDestroysConnections ==
    ( /\ _stopping
      /\ ~halted
      /\ \A l \in DOMAIN _listeners : _listeners[l].accept # "in_flight"
      /\ \A c \in Live : ~ENABLED ConnNext(c) )
        => _current_connections = 0 /\ Live = {}

\* the first future stop() returned has resolved
StopResolved == StopFutureResolved(1)

\* C5: in every state in which the stop future has resolved no accept is in
\* flight and no connection exists, and from such a state no step writes to a
\* transport or touches a connection.
C5_QuiescentOnceStopped ==
    [][ /\ StopResolved' =>
            /\ _connections_being_accepted' = 0
            /\ _current_connections' = 0
            /\ _connections' = <<>>
            /\ \A c \in DOMAIN conn' : ~conn'[c].alive
        /\ StopResolved => conn' = conn ]_vars

\* C5 witness: stop() resolved on a server that served connections and a request
C5_Witness ==
    StopResolved /\ _total_connections = 2 /\ _requests_served = 1

\* C6: the stop future is resolved in every state where stopping is set, no
\* accept is in flight and no connection is live.
C6_ResolvesWhenQuiescent ==
    (_stopping /\ _connections_being_accepted = 0 /\ _current_connections = 0)
        => StopResolved

\* C7: set_value() is called on the quiescence promise at most once, and only
\* when stopping is set, no accept is in flight and no connection is live.
C7_PromiseSetOnce ==
    /\ _all_connections_stopped <= 1
    /\ _all_connections_stopped = 1 =>
           _stopping /\ _connections_being_accepted = 0 /\ _current_connections = 0

\* C7 witness: the promise was set after two listeners and two connections settled
C7_Witness ==
    /\ _all_connections_stopped = 1
    /\ Len(_listeners) = 2
    /\ _total_connections = 2

\* C8: the future a second stop() returns resolves when the first one does.
C8_SecondStopResolves ==
    Len(stop_futures) >= 2 => (StopFutureResolved(2) <=> StopFutureResolved(1))

\* the counters agree with the connection objects and the connection list
C9_Counts ==
    /\ _current_connections = Cardinality(Live)
    /\ _current_connections = Len(_connections)
    /\ {_connections[i] : i \in DOMAIN _connections} = Live
    /\ _total_connections = Len(conn)
    /\ _total_connections >= _current_connections

\* C9: in every state current_connections is the number of connections
\* constructed and not destroyed, which are exactly the entries of the
\* connection list; total_connections counts the constructed ones, is never
\* smaller than current_connections and never decreases.
C9_ConnectionCounters ==
    C9_Counts /\ [][C9_Counts' /\ _total_connections' >= _total_connections]_vars

\* C9 witness: the first of two connections is destroyed, the second is live
C9_Witness ==
    /\ _total_connections = 2
    /\ _current_connections = 1
    /\ _connections = <<2>>

\* C10: the status starts as keep_open, it changes only by the assignments the
\* reader side makes, and close and detach are terminal: after _done was
\* assigned close or detach it is assigned no other value.
C10_TerminalStatus ==
    \A c \in Live :
        /\ conn[c].assigned = <<>> => conn[c]._done = "keep_open"
        /\ conn[c].assigned # <<>> =>
               conn[c]._done = conn[c].assigned[Len(conn[c].assigned)]
        /\ \A i, j \in DOMAIN conn[c].assigned :
               (i < j /\ conn[c].assigned[i] # "keep_open")
                   => conn[c].assigned[j] = conn[c].assigned[i]

\* the status the closure rule gives a request: 1.0 closes unless the
\* Connection header is Keep-Alive, 1.1 closes only if it is Close, any other
\* version closes
ClosureRule(req) ==
    IF req.version = "1.0"
    THEN (IF req.connection = "Keep-Alive" THEN "keep_open" ELSE "close")
    ELSE IF req.version = "1.1"
    THEN (IF req.connection = "Close" THEN "close" ELSE "keep_open")
    ELSE "close"

\* the request asks for a WebSocket upgrade: Connection contains Upgrade and
\* the Upgrade header is websocket, ignoring case
AsksUpgrade(req) ==
    req.connection \in {"Upgrade", "keep-alive, Upgrade"}
        /\ req.upgrade \in {"websocket", "WebSocket"}

\* C11: for every request that asks for no WebSocket upgrade, the status
\* generate_reply resolves with is the one the closure rule gives the request.
C11_ClosureRule ==
    \A c \in Live :
        (conn[c].reader \in {"handle", "store"} /\ ~AsksUpgrade(conn[c].handled))
            => conn[c].ret = ClosureRule(conn[c].handled)

\* C11 witness: generate_reply resolved with close for a request of version 0.9
\* that asked for Keep-Alive
C11_Witness ==
    \E c \in Live :
        /\ conn[c].reader = "store"
        /\ conn[c].handled = Request("0.9", "Keep-Alive", "none", FALSE, FALSE)
        /\ conn[c].ret = "close"

\* the reply to the request the reader holds at its "store" step: the last one
\* it produced
LastReply(k) == k.produced[Len(k.produced)]

\* the reader of connection c stores the status of a request of version 1.0
\* whose Connection header is value
StoresKeepAlive(c, value) ==
    /\ c \in Live
    /\ conn[c].reader = "store"
    /\ conn[c].handled # Null
    /\ conn[c].handled.version = "1.0"
    /\ conn[c].handled.connection = value
    /\ conn'[c].reader # "store"

\* the reply carries Connection: Keep-Alive and the status stays keep_open: the
\* reader goes on to the next request
KeptAlive(c) ==
    /\ LastReply(conn[c]).connection = "Keep-Alive"
    /\ conn[c].ret = "keep_open"
    /\ conn'[c]._done = "keep_open"
    /\ conn'[c].reader = "consume"

\* C12: for every parsed request of version 1.0 whose Connection
\* header is keep-alive, the reply carries Connection: Keep-Alive and the
\* status stays keep_open.
C12_KeepAliveAsStated ==
    [][\A c \in DOMAIN conn : StoresKeepAlive(c, "keep-alive") => KeptAlive(c)]_vars

\* the same for the exact header value Keep-Alive, the one generate_reply
\* compares with: the reply carries Connection: Keep-Alive and the status
\* stays keep_open.
C12_KeepAlive ==
    [][\A c \in DOMAIN conn : StoresKeepAlive(c, "Keep-Alive") => KeptAlive(c)]_vars

\* a reply with Connection: Keep-Alive is on the wire and the
\* connection is open, reading the next request
C12_Witness ==
    \E c \in Live :
        /\ Len(conn[c].produced) = 1
        /\ conn[c].produced[1].connection = "Keep-Alive"
        /\ Len(conn[c].wire) = 4
        /\ conn[c]._done = "keep_open"
        /\ conn[c].reader = "consume"
        /\ conn[c].responder = "pop_eventually"
        /\ ~conn[c].write_closed

\* the writes of reply r are all on the wire of connection k
Written(k, r) ==
    \A part \in 1..4 : \E i \in DOMAIN k.wire : k.wire[i] = Chunk(r, part)

\* C13: when the WebSocket handler is invoked on a connection that accepted
\* an upgrade (it produced a 101 reply) and had no transport error, the status
\* is detach, both loops have exited and the 101 reply has been written to
\* the transport.
C13_UpgradeReplyWritten ==
    \A c \in Live :
        \A i \in DOMAIN conn[c].produced :
            ( /\ conn[c].process = "handle_ws"
              /\ NoTransportError(c)
              /\ conn[c].produced[i].status = 101 )
                => /\ conn[c]._done = "detach"
                   /\ joined(conn[c])
                   /\ Written(conn[c], conn[c].produced[i])

\* C14: generate_reply takes the upgrade path (and resolves with detach) only
\* for a request that asks for a WebSocket upgrade and whose path has a WS
\* route; a request that asks for the upgrade but has no WS route for its path
\* is handled as a normal request: a reply of the HTTP route table, and the
\* status of the closure rule.
C14_UpgradePathNeedsRoute ==
    \A c \in Live :
        conn[c].reader = "store" =>
            /\ conn[c].ret = "detach" =>
                   AsksUpgrade(conn[c].handled) /\ conn[c].handled.ws_route
            /\ (AsksUpgrade(conn[c].handled) /\ ~conn[c].handled.ws_route) =>
                   /\ conn[c].ret = ClosureRule(conn[c].handled)
                   /\ LastReply(conn[c]).status = 200

\* C15: on a connection where upgrade_websocket refused an upgrade (a 400
\* reply was produced) the status is detach, the reader parses no further
\* request, and the connection goes on to its destruction: until it is
\* deleted it has a step to take.
C15_RefusedUpgradeExits ==
    \A c \in Live :
        (\E i \in DOMAIN conn[c].produced : conn[c].produced[i].status = 400)
            => /\ conn[c]._done = "detach"
               /\ conn[c].reader \in {"store", "then_wrapped", "done"}
               /\ ENABLED ConnNext(c)

\* C16: when the transport of a connection that accepted an upgrade (it
\* produced a 101 reply, its final status is detach) is handed to the
\* WebSocket handler, neither the read buffer nor the write buffer has been
\* closed.
C16_BuffersOpenAtHandOver ==
    \A c \in Live :
        ( /\ conn[c].process = "handle_ws"
          /\ \E i \in DOMAIN conn[c].produced : conn[c].produced[i].status = 101 )
            => ~conn[c].read_closed /\ ~conn[c].write_closed

\* C17: a connection is deleted only when its reader and its responder have
\* terminated and process() has resolved, which on the detach branch is after
\* the WebSocket handler returned; and nothing of a deleted connection changes
\* any more: none of its tasks runs, stop() does not touch it.
C17_DestroyedAfterTasks ==
    [][\A c \in DOMAIN conn :
          /\ (conn[c].alive /\ ~conn'[c].alive)
                 => /\ conn[c].reader = "done"
                    /\ conn[c].responder = "done"
                    /\ conn[c].process = "resolved"
          /\ conn'[c].process = "resolved"
                 => conn'[c].reader = "done" /\ conn'[c].responder = "done"
          /\ (conn[c].process = "handle_ws" /\ conn'[c].process # "handle_ws")
                 => conn'[c].alive /\ conn'[c].process = "resolved"
          /\ ~conn[c].alive => conn'[c] = conn[c] ]_vars

\* C17 witness: one connection has been deleted, another one is detached, its
\* WebSocket handler wrote a message and returned, and it is about to be deleted
C17_Witness ==
    \E c, d \in ConnIds :
        /\ ~conn[c].alive
        /\ conn[d].alive
        /\ conn[d].process = "resolved"
        /\ conn[d]._done = "detach"
        /\ conn[d].ws_writes = 1

\* the accepts in flight
AcceptsInFlight(listeners) ==
    Cardinality({l \in DOMAIN listeners : listeners[l].accept = "in_flight"})

\* C18: once stopping is set no step constructs a connection or issues an
\* accept; and in every state connections_being_accepted is the number of
\* accepts in flight, at most one per listener.
C18_NoAcceptAfterStop ==
    [][ /\ _stopping =>
               /\ _total_connections' = _total_connections
               /\ Len(conn') = Len(conn)
               /\ Len(_connections') <= Len(_connections)
               /\ \A l \in DOMAIN _listeners' :
                      _listeners'[l].accept = "in_flight" =>
                          (l \in DOMAIN _listeners /\ _listeners[l].accept = "in_flight")
        /\ _connections_being_accepted' = AcceptsInFlight(_listeners')
        /\ _connections_being_accepted' <= Len(_listeners') ]_vars

\* C18 witness: stop() was called with a client still waiting to connect; the
\* accepts of both listeners have completed and only one connection was made
C18_Witness ==
    /\ _stopping
    /\ Len(_listeners) = 2
    /\ \A l \in DOMAIN _listeners : _listeners[l].accept = "none"
    /\ _total_connections = 1
    /\ workload.clients = 2

\* the replies the reader produced and the responder has not completely
\* written: not all writes of the reply are on the wire, or the responder
\* still holds it (its flush is pending)
InFlight(k) ==
    Cardinality({i \in DOMAIN k.produced :
                    ~Written(k, k.produced[i]) \/ k._resp = k.produced[i]})

\* C19 as stated: on every connection at most 10 replies are produced and not
\* yet completely written.
C19_AtMostCapacityInFlight ==
    \A c \in Live : InFlight(conn[c]) <= QueueCap

\* C19 amended: on every connection the reply queue holds at most 10 entries
\* and at most 11 replies are produced and not yet completely written: the 10
\* the queue holds and the one the responder has popped and is writing.
C19_InFlightBound ==
    \A c \in Live :
        /\ Len(conn[c]._replies) <= QueueCap
        /\ InFlight(conn[c]) <= QueueCap + 1

\* C19 witness: the queue is full while the responder writes the first reply
\* and the reader waits for room with a twelfth request
C19_Witness ==
    \E c \in Live :
        /\ InFlight(conn[c]) = QueueCap + 1
        /\ Len(conn[c]._replies) = QueueCap
        /\ conn[c].responder = "start_response"
        /\ conn[c].reader = "not_full"

\* the hexadecimal digits among Chars and their values
IsHex(c) == c \in {"4", "a", "F"}

HexVal(c) == CASE c = "4" -> 4 [] c = "a" -> 10 [] c = "F" -> 15

\* s contains a % that is not followed by two hexadecimal digits
InvalidEscape(s) ==
    \E i \in DOMAIN s :
        /\ s[i] = "%"
        /\ ~(i + 2 <= Len(s) /\ IsHex(s[i + 1]) /\ IsHex(s[i + 2]))

\* the bytes a string without invalid escape decodes to
RECURSIVE Decoded(_)
Decoded(s) ==
    IF s = <<>> THEN <<>>
    ELSE IF s[1] = "%"
    THEN <<16 * HexVal(s[2]) + HexVal(s[3])>> \o Decoded(SubSeq(s, 4, Len(s)))
    ELSE IF s[1] = "+" THEN <<32>> \o Decoded(Tail(s))
    ELSE <<Ord(s[1])>> \o Decoded(Tail(s))

\* the key and the value of a parameter: before and after its first "="
KeyOf(p) ==
    IF \E i \in DOMAIN p : p[i] = "="
    THEN SubSeq(p, 1, (CHOOSE i \in DOMAIN p :
                          p[i] = "=" /\ \A j \in 1..(i - 1) : p[j] # "=") - 1)
    ELSE p

ValueOf(p) == SubSeq(p, Len(KeyOf(p)) + 2, Len(p))

\* C20: after add_param, a parameter whose key or value contains an invalid
\* escape has added no entry to query_parameters; a parameter without one has
\* added its key and value with each %HH decoded to the byte HH and each +
\* to a space.
C20_InvalidEscapeDropped ==
    added =>
        IF InvalidEscape(KeyOf(param)) \/ InvalidEscape(ValueOf(param))
        THEN query_parameters = {}
        ELSE query_parameters =
                 {[key |-> Decoded(KeyOf(param)), value |-> Decoded(ValueOf(param))]}

\* C21: on every connection the reader pushes at most one sentinel, after
\* its loop ended with a status other than detach; once read() is done it has
\* pushed exactly one if the status is not detach and none if it is; and the
\* sentinel does get pushed: when the reader waits to push it and the
\* responder has exited, the queue has room for it.
C21_OneSentinel ==
    \A c \in Live :
        /\ conn[c].sentinels <= 1
        /\ conn[c].sentinels = 1 => conn[c].reader = "done" /\ conn[c]._done # "detach"
        /\ conn[c].reader = "done" =>
               conn[c].sentinels = (IF conn[c]._done = "detach" THEN 0 ELSE 1)
        /\ (conn[c].reader = "push_eventually" /\ conn[c].responder = "done")
               => ~full(conn[c]._replies)

\* C22: after a write failure on a connection the loops terminate, process()
\* resolves and the connection is destroyed: as long as the connection exists
\* and the process runs, the connection has a step to take.
C22_WriteFailureEndsConnection ==
    \A c \in Live :
        (conn[c].respond_failed /\ ~halted) => ENABLED ConnNext(c)

\* C23: every push of a reply happens on a queue that holds fewer than 10
\* entries and puts the reply at the end of the queue: no reply is dropped,
\* and the queue never holds more than 10 entries.
C23_PushNeverOnFullQueue ==
    [][\A c \in DOMAIN conn :
          /\ (c \in Live /\ Len(conn'[c].produced) > Len(conn[c].produced))
                 => /\ Len(conn[c]._replies) < QueueCap
                    /\ conn'[c]._replies =
                           Append(conn[c]._replies, LastReply(conn'[c]))
          /\ Len(conn'[c]._replies) <= QueueCap ]_vars

\* C23 witness: the twelfth reply was pushed into the last free slot, after
\* its request had waited for room in the queue
C23_Witness ==
    \E c \in Live :
        /\ Len(conn[c].produced) = 12
        /\ Len(conn[c]._replies) = QueueCap
        /\ conn[c].reader = "store"

\* C24: when process() takes its detach branch (both loops joined, the status
\* is detach) the connection holds a retained request: _req is not null.
C24_RequestRetainedOnDetach ==
    \A c \in Live :
        ( /\ conn[c].process = "when_all"
          /\ joined(conn[c])
          /\ conn[c]._done = "detach" )
            => conn[c]._req # Null

====
